---- MODULE Spec2Model ----
(***************************************************************************)
(* Model of backend/server.py: the Pharma Insights API.                    *)
(*                                                                         *)
(* Representation choices, all stated once here:                           *)
(*  - time: `now` counts clock ticks since the midnight (UTC) that starts  *)
(*    day number BaseDay (days since 1970-01-01); a second has             *)
(*    TicksPerSecond ticks, so sub-second instants exist;                  *)
(*  - a date string "YYYY-MM-DD" is the triple <<y, m, d>>; comparing the  *)
(*    zero-padded strings is comparing the triples lexicographically;      *)
(*  - money is an integer number of cents (a float rounded to 2 decimals); *)
(*    unrounded products are exact rationals numerator/denominator;        *)
(*  - a text (drug filter, drug name) is a TLA+ string whose characters    *)
(*    are given by Chars, so that str.lower() is computed per character;   *)
(*  - a password is a short text (bcrypt reads its first 72 bytes);        *)
(*  - uuid4 ids and created_at stamps of records are opaque and left out.  *)
(***************************************************************************)
EXTENDS Integers, Sequences, FiniteSets, TLC

VARIABLES
    now,        \* the wall clock, in ticks since BaseDay 00:00:00 UTC
    ml_api_url, \* ML_API_URL, read from the environment when the process starts
    users,      \* db.users: the documents of the collection, in insertion order
    reg,        \* per client, its register coroutine: idle, or past find_one
    held,       \* per client, the token it keeps from its last register or login
    relay,      \* the /predict request blocked in requests.get, if any
    last        \* the last completed request: its input, response and handler locals

vars == <<now, ml_api_url, users, reg, held, relay, last>>

----------------------------------------------------------------------------
(* Bounds of the model *)

\* clock resolution: ticks in one second
TicksPerSecond == 2
\* the clock is observed in its first ClockSlack ticks, and in the ClockSlack
\* ticks before and after one token lifetime has passed
ClockSlack == 1
\* the day (days since 1970-01-01) whose midnight is tick 0: 2024-03-01, a Friday
BaseDay == 19783

----------------------------------------------------------------------------
(* Python values *)

\* Python's None, where a text or a document is optional
None == "None"

Min(a, b) == IF a <= b THEN a ELSE b
Max(a, b) == IF a >= b THEN a ELSE b

\* int(x) of the rational x = n/d (d > 0): truncation toward zero
int(n, d) == IF n >= 0 THEN n \div d ELSE -((-n) \div d)

\* round(x, 2) of the dollar amount x = n/d cents (n >= 0, d > 0), in cents:
\* the set of the values the code can give. round() rounds the float the
\* code has computed for x, correctly: off a half that is the nearest cent.
\* On an exact half of a cent the float lies above the half, below it or on
\* it (0.025 is held as 0.025000000000000001..., 0.125 exactly), as its
\* binary expansion and the rounding errors of the computation have it, and
\* round() gives the cent above or the cent below.
round2(n, d) ==
    LET q == n \div d
        r == n % d
    IN  IF 2 * r = d THEN {q, q + 1}
        ELSE IF 2 * r > d THEN {q + 1} ELSE {q}

\* the value of an expression that has one outcome; no value where it has
\* several
The(outcomes) == CHOOSE x \in outcomes : outcomes = {x}

\* s[:stop] of a list
SlicePrefix(s, stop) ==
    LET k == IF stop < 0 THEN Max(Len(s) + stop, 0) ELSE Min(stop, Len(s))
    IN  SubSeq(s, 1, k)

\* s[-n:] of a list (n > 0)
SliceSuffix(s, n) == SubSeq(s, Max(Len(s) - n, 0) + 1, Len(s))

\* the characters (code points) of the texts the model uses
Chars ==
    "Paracetamol" :> <<80, 97, 114, 97, 99, 101, 116, 97, 109, 111, 108>> @@
    "Amoxicillin" :> <<65, 109, 111, 120, 105, 99, 105, 108, 108, 105, 110>> @@
    "Omeprazole" :> <<79, 109, 101, 112, 114, 97, 122, 111, 108, 101>> @@
    "Metformin" :> <<77, 101, 116, 102, 111, 114, 109, 105, 110>> @@
    "Lisinopril" :> <<76, 105, 115, 105, 110, 111, 112, 114, 105, 108>> @@
    "Atorvastatin" :> <<65, 116, 111, 114, 118, 97, 115, 116, 97, 116, 105, 110>> @@
    "Ibuprofen" :> <<73, 98, 117, 112, 114, 111, 102, 101, 110>> @@
    "Ciprofloxacin" :> <<67, 105, 112, 114, 111, 102, 108, 111, 120, 97, 99, 105, 110>> @@
    "Amlodipine" :> <<65, 109, 108, 111, 100, 105, 112, 105, 110, 101>> @@
    "Gabapentin" :> <<71, 97, 98, 97, 112, 101, 110, 116, 105, 110>> @@
    "ibuprofen" :> <<105, 98, 117, 112, 114, 111, 102, 101, 110>> @@
    "GABAPENTIN" :> <<71, 65, 66, 65, 80, 69, 78, 84, 73, 78>> @@
    "Aspirin" :> <<65, 115, 112, 105, 114, 105, 110>> @@
    "Inventory" :> <<73, 110, 118, 101, 110, 116, 111, 114, 121>> @@
    "Sales" :> <<83, 97, 108, 101, 115>> @@
    "Growth" :> <<71, 114, 111, 119, 116, 104>> @@
    "Pricing" :> <<80, 114, 105, 99, 105, 110, 103>> @@
    "Operations" :> <<79, 112, 101, 114, 97, 116, 105, 111, 110, 115>> @@
    "Marketing" :> <<77, 97, 114, 107, 101, 116, 105, 110, 103>> @@
    "critical" :> <<99, 114, 105, 116, 105, 99, 97, 108>> @@
    "high" :> <<104, 105, 103, 104>> @@
    "medium" :> <<109, 101, 100, 105, 117, 109>> @@
    "low" :> <<108, 111, 119>> @@
    "inventory" :> <<105, 110, 118, 101, 110, 116, 111, 114, 121>> @@
    "CRITICAL" :> <<67, 82, 73, 84, 73, 67, 65, 76>> @@
    "" :> <<>>

\* str.lower(): every upper-case ASCII letter becomes its lower-case letter
lower(s) ==
    [i \in 1..Len(Chars[s]) |->
        IF Chars[s][i] \in 65..90 THEN Chars[s][i] + 32 ELSE Chars[s][i]]

\* truth value of an optional text: None and "" are false
Truthy(s) == s # None /\ Len(Chars[s]) > 0

----------------------------------------------------------------------------
(* Dates *)

\* date.strftime("%Y-%m-%d") of the day `day` (days since 1970-01-01)
strftime(day) ==
    LET z   == day + 719468
        era == z \div 146097
        doe == z - era * 146097
        yoe == (doe - doe \div 1460 + doe \div 36524 - doe \div 146096) \div 365
        doy == doe - (365 * yoe + yoe \div 4 - yoe \div 100)
        mp  == (5 * doy + 2) \div 153
        d   == doy - (153 * mp + 2) \div 5 + 1
        m   == IF mp < 10 THEN mp + 3 ELSE mp - 9
        y   == yoe + era * 400 + (IF m <= 2 THEN 1 ELSE 0)
    IN  <<y, m, d>>

\* datetime.strptime(s, "%Y-%m-%d"), as a day number
strptime(s) ==
    LET y   == IF s[2] <= 2 THEN s[1] - 1 ELSE s[1]
        era == y \div 400
        yoe == y - era * 400
        mp  == IF s[2] > 2 THEN s[2] - 3 ELSE s[2] + 9
        doy == (153 * mp + 2) \div 5 + s[3] - 1
        doe == yoe * 365 + yoe \div 4 - yoe \div 100 + doy
    IN  era * 146097 + doe - 719468

\* date.weekday(): Monday is 0
weekday(day) == (day + 3) % 7

\* order of two date strings, as sorted() compares them
DateLess(a, b) ==
    \/ a[1] < b[1]
    \/ a[1] = b[1] /\ a[2] < b[2]
    \/ a[1] = b[1] /\ a[2] = b[2] /\ a[3] < b[3]

\* the calendar day of the clock value t: datetime.now(timezone.utc)
Today(t) == BaseDay + t \div (86400 * TicksPerSecond)

----------------------------------------------------------------------------
(* The random module *)

\* the period of the model's random words: lcm(151, 80)
RandomPeriod == 12080

\* the i-th word (i = 0, 1, ...) the random source rnd = [seed, step] yields
\* in one request; one word feeds one call of randint or uniform
RandomWord(rnd, i) == (rnd.seed + rnd.step * i) % RandomPeriod

\* random.randint(a, b) fed the word w: an integer of a..b
randint(a, b, w) == a + (w % (b - a + 1))

\* random.random() fed the word w, in two-hundredths: one of the 80 values
\* m/200 of [0, 1) with m prime to 10. (With these values no product of
\* generate_mock_sales_data lies exactly on an integer or on half a cent,
\* where int() and round() would depend on the rounding error of the float
\* product: base_units * day_factor * noise has the denominator 10000 and
\* units * base_price * noise the denominator 1000 in lowest terms up to a
\* factor of base_units or units, which stay below 500.)
random(w) == 10 * ((w % 80) \div 4) + <<1, 3, 7, 9>>[(w % 4) + 1]

\* random.uniform(a, b) = a + (b - a) * random() fed the word w; a, b and the
\* result are in thousandths (b - a is a multiple of 200 thousandths)
uniform(a, b, w) == a + ((b - a) * random(w)) \div 200

----------------------------------------------------------------------------
(* Mock sales data *)

\* base_price is in cents
DRUGS_DATA == <<
    [name |-> "Paracetamol",   category |-> "Pain Relief",    base_price |-> 599],
    [name |-> "Amoxicillin",   category |-> "Antibiotics",    base_price |-> 1299],
    [name |-> "Omeprazole",    category |-> "Digestive",      base_price |-> 849],
    [name |-> "Metformin",     category |-> "Diabetes",       base_price |-> 1599],
    [name |-> "Lisinopril",    category |-> "Cardiovascular", base_price |-> 1899],
    [name |-> "Atorvastatin",  category |-> "Cardiovascular", base_price |-> 2249],
    [name |-> "Ibuprofen",     category |-> "Pain Relief",    base_price |-> 699],
    [name |-> "Ciprofloxacin", category |-> "Antibiotics",    base_price |-> 1499],
    [name |-> "Amlodipine",    category |-> "Cardiovascular", base_price |-> 1699],
    [name |-> "Gabapentin",    category |-> "Neurological",   base_price |-> 2499] >>

\* the number of days generate_mock_sales_data covers: range(180)
HISTORY_DAYS == 180

\* the body of the inner loop: the sale of `drug` on the day `date`, the
\* row's three random words starting at word number w0
SaleRow(drug, date, rnd, w0) ==
    LET base_units == randint(50, 200, RandomWord(rnd, w0))
        \* day_factor, in tenths
        day_factor == IF weekday(date) < 5 THEN 12 ELSE 8
        units      == int(base_units * day_factor
                            * uniform(700, 1300, RandomWord(rnd, w0 + 1)), 10000)
        \* not on half a cent for the drugs of DRUGS_DATA and the values
        \* of random(): one outcome
        revenue    == The(round2(units * drug.base_price
                            * uniform(900, 1100, RandomWord(rnd, w0 + 2)), 1000))
    IN  [drug_name  |-> drug.name,
         category   |-> drug.category,
         units_sold |-> units,
         revenue    |-> revenue,
         date       |-> strftime(date)]

\* the inner loop "for drug in DRUGS_DATA" of one day: one row appended per
\* catalog entry, in catalog order; row j takes the words from
\* 3 * (days_ago * 10 + j - 1) on
DrugLoop(days_ago, base_date, rnd) ==
    [j \in 1..Len(DRUGS_DATA) |->
        SaleRow(DRUGS_DATA[j], base_date - days_ago, rnd,
                3 * (days_ago * Len(DRUGS_DATA) + (j - 1)))]

\* the outer loop "for days_ago in range(lo, hi + 1)": the rows it appends,
\* the days in increasing days_ago (the range is split in two halves, run one
\* after the other)
RECURSIVE DayLoop(_, _, _, _)
DayLoop(lo, hi, base_date, rnd) ==
    IF lo > hi THEN <<>>
    ELSE IF lo = hi THEN DrugLoop(lo, base_date, rnd)
    ELSE LET mid == (lo + hi) \div 2
         IN  DayLoop(lo, mid, base_date, rnd) \o DayLoop(mid + 1, hi, base_date, rnd)

\* a generator whose outer loop is range(1, 181): it starts at yesterday
generate_mock_sales_data_from_yesterday(base_date, rnd) ==
    DayLoop(1, HISTORY_DAYS, base_date, rnd)

\* generate_mock_sales_data() called on the day base_date with the random
\* source rnd
generate_mock_sales_data(base_date, rnd) ==
    DayLoop(0, HISTORY_DAYS - 1, base_date, rnd)

----------------------------------------------------------------------------
(* Aggregation: sums and dictionaries *)

\* sum(v[lo..hi]) of a list of integers (the range is split in two halves)
RECURSIVE SumRange(_, _, _)
SumRange(v, lo, hi) ==
    IF lo > hi THEN 0
    ELSE IF lo = hi THEN v[lo]
    ELSE LET mid == (lo + hi) \div 2
         IN  SumRange(v, lo, mid) + SumRange(v, mid + 1, hi)

\* sum(v)
sum(v) == SumRange(v, 1, Len(v))

\* a dict is the list of its entries [key |-> ..., ...] in insertion order;
\* the position of the entry of key k, 0 if the dict has none
KeyIndex(d, k) ==
    IF \E i \in 1..Len(d) : d[i].key = k
    THEN CHOOSE i \in 1..Len(d) : d[i].key = k
    ELSE 0

\* a loop that assigns where the code adds ("=" for "+="): a key met again
\* keeps only its latest totals
MergeTotalsOverwrite(d1, d2) ==
    [i \in 1..Len(d1) |->
        IF KeyIndex(d2, d1[i].key) = 0 THEN d1[i] ELSE d2[KeyIndex(d2, d1[i].key)]]
    \o SelectSeq(d2, LAMBDA e : KeyIndex(d1, e.key) = 0)

\* two dicts of totals run together: what the loop that built d2 from the
\* empty dict leaves when it starts from d1 instead. The keys of d1 keep their
\* places and add the totals d2 has for them; the keys only d2 has follow, in
\* the order of d2
MergeTotals(d1, d2) ==
    [i \in 1..Len(d1) |->
        IF KeyIndex(d2, d1[i].key) = 0 THEN d1[i]
        ELSE [key     |-> d1[i].key,
              revenue |-> d1[i].revenue + d2[KeyIndex(d2, d1[i].key)].revenue,
              units   |-> d1[i].units + d2[KeyIndex(d2, d1[i].key)].units]]
    \o SelectSeq(d2, LAMBDA e : KeyIndex(d1, e.key) = 0)

\* the loops "for sale in sales[lo..hi]" that total revenue and units per
\* key, the key being the field `by` of the sale (drug_name, category, date):
\*   if drug and sale['drug_name'].lower() != drug.lower(): continue
\*   if key not in d: d[key] = {'revenue': 0, 'units': 0}
\*   d[key]['revenue'] += sale['revenue']; d[key]['units'] += sale['units_sold']
\* The range is split in two halves, run one after the other. The loops of
\* get_sales_metrics have no filter (drug = None); drug_revenues and
\* drug_units, two dicts with the same keys, are one dict here; the loop of
\* get_forecast totals the units only.
RECURSIVE GroupLoop(_, _, _, _, _)
GroupLoop(sales, lo, hi, by, drug) ==
    IF lo > hi THEN <<>>
    ELSE IF lo = hi
    THEN IF Truthy(drug) /\ lower(sales[lo].drug_name) # lower(drug)
         THEN <<>>
         ELSE <<[key |-> sales[lo][by], revenue |-> sales[lo].revenue,
                 units |-> sales[lo].units_sold]>>
    ELSE LET mid == (lo + hi) \div 2
         IN  MergeTotals(GroupLoop(sales, lo, mid, by, drug),
                         GroupLoop(sales, mid + 1, hi, by, drug))

\* sorted(daily_data.keys())
SortedDates(daily_data) ==
    SortSeq([i \in 1..Len(daily_data) |-> daily_data[i].key], DateLess)

----------------------------------------------------------------------------
(* Passwords and tokens *)

SECRET_KEY == "pharma-insights-secret-key-2024"
ACCESS_TOKEN_EXPIRE_MINUTES == 1440

\* get_password_hash: the bcrypt hash of a password (of at most 72 bytes; the
\* salt, which never changes what verify answers, is left out)
get_password_hash(password) == [scheme |-> "bcrypt", secret |-> password]

\* verify_password
verify_password(plain_password, hashed_password) ==
    hashed_password = get_password_hash(plain_password)

\* the length of `minutes` minutes, in ticks
MinutesTicks(minutes) == minutes * 60 * TicksPerSecond

\* what a client sends as its Authorization header: nothing, a bearer text
\* that is no JWT, or a JWT with its claims and the key it was signed with
NoHeader  == [kind |-> "none",    sub |-> None, exp |-> 0, key |-> None]
Malformed == [kind |-> "garbage", sub |-> None, exp |-> 0, key |-> None]

\* create_access_token(data = {"sub": sub}, expires_delta) at clock value t;
\* expires_delta is in minutes, 0 standing for a missing (or zero) timedelta.
\* jwt.encode writes exp as whole seconds: timegm(expire.utctimetuple())
\* drops the fraction of a second. exp counts seconds since tick 0.
create_access_token(sub, expires_delta, t) ==
    LET expire == IF expires_delta # 0 THEN t + MinutesTicks(expires_delta)
                  ELSE t + MinutesTicks(15)
    IN  [kind |-> "jwt", sub |-> sub, exp |-> expire \div TicksPerSecond,
         key |-> SECRET_KEY]

\* a decoder that still accepts a token at the instant exp ("<" for "<=")
jwt_decode_late(token, t) ==
    IF token.kind # "jwt" THEN [ok |-> FALSE, error |-> "DecodeError"]
    ELSE IF token.key # SECRET_KEY
        THEN [ok |-> FALSE, error |-> "InvalidSignatureError"]
    ELSE IF token.exp * TicksPerSecond < t
        THEN [ok |-> FALSE, error |-> "ExpiredSignatureError"]
    ELSE [ok |-> TRUE, sub |-> token.sub]

\* jwt.decode(token, SECRET_KEY, algorithms=[ALGORITHM]) at clock value t:
\* the payload, or the PyJWTError raised (PyJWT 2.6 and later: the token is
\* expired once exp <= now, now a fractional number of seconds)
jwt_decode(token, t) ==
    IF token.kind # "jwt" THEN [ok |-> FALSE, error |-> "DecodeError"]
    ELSE IF token.key # SECRET_KEY
        THEN [ok |-> FALSE, error |-> "InvalidSignatureError"]
    ELSE IF token.exp * TicksPerSecond <= t
        THEN [ok |-> FALSE, error |-> "ExpiredSignatureError"]
    ELSE [ok |-> TRUE, sub |-> token.sub]

----------------------------------------------------------------------------
(* The user store *)

\* the positions of the documents of db.users with this email
Matching(db, email) == {i \in 1..Len(db) : db[i].email = email}

\* a lookup that never finds a document
find_one_blind(db, email) == 0

\* db.users.find_one({"email": email}): the first matching document in the
\* collection's natural (insertion) order, as its position, 0 for None
find_one(db, email) ==
    IF Matching(db, email) = {} THEN 0
    ELSE CHOOSE i \in Matching(db, email) : \A j \in Matching(db, email) : i <= j

\* an insert into a collection with a unique index on email, the
\* DuplicateKeyError swallowed
insert_one_unique(db, doc) ==
    IF Matching(db, doc.email) # {} THEN db ELSE Append(db, doc)

\* db.users.insert_one(doc): the collection has no unique index
insert_one(db, doc) == Append(db, doc)

\* the HTTPBearer dependency `security`: the answers it can give to the
\* credentials cred. Without an Authorization header it rejects the request
\* itself, with 403 in the FastAPI releases before 0.122 and 401 since.
security(cred) ==
    IF cred.kind = "none"
    THEN {[ok |-> FALSE, status |-> 403, detail |-> "Not authenticated"],
          [ok |-> FALSE, status |-> 401, detail |-> "Not authenticated"]}
    ELSE {[ok |-> TRUE, credentials |-> cred]}

\* get_current_user(credentials) at clock value t over the store db
get_current_user(token, t, db) ==
    LET payload == jwt_decode(token, t)
    IN  IF ~payload.ok
        THEN [ok |-> FALSE, status |-> 401, detail |-> "Invalid token"]
        ELSE IF payload.sub = None
        THEN [ok |-> FALSE, status |-> 401, detail |-> "Invalid token"]
        ELSE IF find_one(db, payload.sub) = 0
        THEN [ok |-> FALSE, status |-> 401, detail |-> "User not found"]
        ELSE [ok |-> TRUE,
              user |-> [email |-> db[find_one(db, payload.sub)].email,
                        name  |-> db[find_one(db, payload.sub)].name]]

\* Depends(get_current_user): the answers the dependency chain can give
Depends(cred, t, db) ==
    {IF s.ok THEN get_current_user(s.credentials, t, db) ELSE s : s \in security(cred)}

----------------------------------------------------------------------------
(* Clients and what they send *)

Clients   == {"c1", "c2"}
Emails    == {"alice@x.com", "bob@x.com"}
Passwords == {"pw123", "hunter2"}

\* the body of a register request
UserCreate == [email : Emails, name : {"User"}, password : Passwords]
\* the body of a login request
UserLogin  == [email : Emails, password : Passwords]

\* a request without body or query parameters; a response whose handler
\* locals are not kept
NoParams == [params |-> "none"]
NoLocals == [locals |-> "none"]

\* no token kept, no coroutine running, no relay under way, nothing completed yet
NoToken   == [token |-> NoHeader, at |-> 0]
Idle      == [pc |-> "idle", user_data |-> NoParams]
NoRelay   == [pc |-> "idle", client |-> None, cred |-> NoHeader, request |-> NoParams]
NoRequest == [endpoint |-> "none", client |-> None, at |-> 0, cred |-> NoHeader,
              request |-> NoParams, status |-> 0, handler_ran |-> FALSE,
              body |-> NoParams, locals |-> NoLocals]

\* tokens nobody was issued: signed with another key, signed with the key
\* (whose default value is in the source) but without a subject, or for an
\* email that never registered
ForgedTokens ==
    {[kind |-> "jwt", sub |-> "alice@x.com", exp |-> 4 * 86400, key |-> "another-key"],
     [kind |-> "jwt", sub |-> None, exp |-> 4 * 86400, key |-> SECRET_KEY],
     [kind |-> "jwt", sub |-> "mallory@x.com", exp |-> 4 * 86400, key |-> SECRET_KEY]}

\* what client c can put in its Authorization header
Credentials(c) == {NoHeader, Malformed, held[c].token} \cup ForgedTokens

\* the instants at which the model looks at the clock
ClockValues ==
    (0 .. ClockSlack)
    \cup ((MinutesTicks(ACCESS_TOKEN_EXPIRE_MINUTES) - ClockSlack)
            .. (MinutesTicks(ACCESS_TOKEN_EXPIRE_MINUTES) + ClockSlack))

----------------------------------------------------------------------------
(* What the requests for sales data carry *)

\* the random sources of the requests: every draw the lowest, a varying
\* sequence of draws, every draw the highest
RandomSources ==
    {[seed |-> 0, step |-> 0], [seed |-> 37, step |-> 7919],
     [seed |-> 12079, step |-> 0]}

\* the query parameters the requests carry
SalesDays    == {-181, -1, 0, 7, 181}
SalesDrugs   == {None, "ibuprofen"}
TrendsDrugs  == {None, "GABAPENTIN"}
PredictDrugs == {None, "", "ibuprofen", "Aspirin"}
PredictDays  == {0, 3}
InsightCategories == {None, "inventory"}
InsightPriorities == {None, "CRITICAL"}

\* the days on which the routes with sales data are called: the clock does
\* not advance while they are exercised
ObservedDays == {Today(0)}

----------------------------------------------------------------------------
(* Responses *)

\* the request completes with an HTTPException raised before or in the handler
Raise(endpoint, c, cred, request, status, detail, ran) ==
    last' = [endpoint |-> endpoint, client |-> c, at |-> now, cred |-> cred,
             request |-> request, status |-> status, handler_ran |-> ran,
             body |-> [detail |-> detail], locals |-> NoLocals]

\* the handler returns body
Return(endpoint, c, cred, request, body, locals) ==
    last' = [endpoint |-> endpoint, client |-> c, at |-> now, cred |-> cred,
             request |-> request, status |-> 200, handler_ran |-> TRUE,
             body |-> body, locals |-> locals]

\* the event loop runs coroutines unless requests.get (a blocking call made
\* inside a coroutine) holds its thread
Running == relay.pc = "idle"

\* the Token response model
Token(access_token, user) ==
    [access_token |-> access_token, token_type |-> "bearer",
     user |-> [email |-> user.email, name |-> user.name]]

----------------------------------------------------------------------------
(* Auth routes *)

\* register, up to the answer of "await db.users.find_one": the coroutine
\* raises 400 or goes on to build the document
RegisterCheck(c, user_data) ==
    /\ Running
    /\ reg[c].pc = "idle"
    /\ IF find_one(users, user_data.email) # 0
       THEN /\ Raise("register", c, NoHeader, user_data, 400,
                     "Email already registered", TRUE)
            /\ UNCHANGED reg
       ELSE /\ reg' = [reg EXCEPT ![c] = [pc |-> "insert", user_data |-> user_data]]
            /\ UNCHANGED last
    /\ UNCHANGED <<now, ml_api_url, users, held, relay>>

\* register, from "await db.users.insert_one" to the response
RegisterInsert(c) ==
    /\ Running
    /\ reg[c].pc = "insert"
    /\ LET user_data    == reg[c].user_data
           user_dict    == [email |-> user_data.email, name |-> user_data.name,
                            password_hash |-> get_password_hash(user_data.password)]
           access_token == create_access_token(user_data.email,
                                               ACCESS_TOKEN_EXPIRE_MINUTES, now)
       IN  /\ users' = insert_one(users, user_dict)
           /\ held' = [held EXCEPT ![c] = [token |-> access_token, at |-> now]]
           /\ Return("register", c, NoHeader, user_data,
                     Token(access_token, user_dict), NoLocals)
    /\ reg' = [reg EXCEPT ![c] = Idle]
    /\ UNCHANGED <<now, ml_api_url, relay>>

\* login
Login(c, user_data) ==
    /\ Running
    /\ LET user == find_one(users, user_data.email)
       IN  IF user = 0
              \/ ~verify_password(user_data.password, users[user].password_hash)
           THEN /\ Raise("login", c, NoHeader, user_data, 401,
                         "Invalid email or password", TRUE)
                /\ UNCHANGED held
           ELSE LET access_token == create_access_token(users[user].email,
                                        ACCESS_TOKEN_EXPIRE_MINUTES, now)
                IN  /\ held' = [held EXCEPT ![c] = [token |-> access_token, at |-> now]]
                    /\ Return("login", c, NoHeader, user_data,
                              Token(access_token, users[user]), NoLocals)
    /\ UNCHANGED <<now, ml_api_url, users, reg, relay>>

\* GET /auth/me
get_me(c, cred) ==
    /\ Running
    /\ \E current_user \in Depends(cred, now, users) :
          IF current_user.ok
          THEN Return("me", c, cred, NoParams, current_user.user, NoLocals)
          ELSE Raise("me", c, cred, NoParams, current_user.status,
                     current_user.detail, FALSE)
    /\ UNCHANGED <<now, ml_api_url, users, reg, held, relay>>

----------------------------------------------------------------------------
(* Sales routes *)

\* Each handler body is a function of the day, the query parameters and the
\* random source. It is tabulated over the requests the model sends, so that
\* one answer is computed once: a table is the set of the pairs <<q, answer
\* to q>>.

\* the entry of the input q in a table
Answer(table, q) == (CHOOSE p \in table : p[1] = q)[2]

\* generate_mock_sales_data() on the day today with the random source rnd
GeneratedSales ==
    {<<q, generate_mock_sales_data(q[1], q[2])>> :
        q \in ObservedDays \X RandomSources}

\* the body of get_sales
Sales(today, days, drug, rnd) ==
    LET all_sales == Answer(GeneratedSales, <<today, rnd>>)
        by_days   == SlicePrefix(all_sales, days * Len(DRUGS_DATA))
        filtered_sales ==
            IF Truthy(drug)
            THEN SelectSeq(by_days, LAMBDA sale : lower(sale.drug_name) = lower(drug))
            ELSE by_days
    IN  [body   |-> [sales |-> filtered_sales, total |-> Len(filtered_sales)],
         locals |-> [all_sales |-> all_sales]]

SalesAnswers ==
    {<<q, Sales(q[1], q[2], q[3], q[4])>> :
        q \in ObservedDays \X SalesDays \X SalesDrugs \X RandomSources}

\* GET /sales
get_sales(c, cred, days, drug, rnd) ==
    /\ Running
    /\ \E current_user \in Depends(cred, now, users) :
        IF current_user.ok
        THEN LET answer == Answer(SalesAnswers, <<Today(now), days, drug, rnd>>)
             IN  Return("sales", c, cred, [days |-> days, drug |-> drug],
                        answer.body, answer.locals)
        ELSE Raise("sales", c, cred, [days |-> days, drug |-> drug],
                   current_user.status, current_user.detail, FALSE)
    /\ UNCHANGED <<now, ml_api_url, users, reg, held, relay>>

\* the orders sorted() can give to the first k entries of drug_totals sorted
\* by falling revenue: `falling` is one such order of all the entries, and
\* the k-th place goes to any entry not yet placed whose revenue is that of
\* falling[k]
RECURSIVE TieOrders(_, _, _)
TieOrders(drug_totals, falling, k) ==
    IF k = 0 THEN {<<>>}
    ELSE UNION {
            {Append(order, j) :
                j \in {i \in 1..Len(drug_totals) :
                          /\ drug_totals[i].revenue = drug_totals[falling[k]].revenue
                          /\ \A p \in 1..Len(order) : order[p] # i}} :
            order \in TieOrders(drug_totals, falling, k - 1)}

\* sorted(drug_revenues.items(), key=lambda x: x[1], reverse=True)[:5]: the
\* positions of the entries by falling revenue. The key is the float sum of
\* the drug's revenues, not rounded: two drugs whose revenues add up to the
\* same cents have float sums that are equal or differ in their last bits,
\* as the order of the additions has it, so that either of them can come
\* first. The result is the set of the orders sorted() can give.
TopDrugs(drug_totals) ==
    LET falling == SortSeq([i \in 1..Len(drug_totals) |-> i],
                       LAMBDA a, b :
                           \/ drug_totals[a].revenue > drug_totals[b].revenue
                           \/ drug_totals[a].revenue = drug_totals[b].revenue /\ a < b)
    IN  {SlicePrefix(order, 5) :
            order \in TieOrders(drug_totals, falling, Len(drug_totals))}

\* the bodies get_sales_metrics can return, one per order of top_drugs;
\* avg_daily_demand is in hundredths
SalesMetrics(today, rnd) ==
    LET all_sales     == Answer(GeneratedSales, <<today, rnd>>)
        recent_sales  == SlicePrefix(all_sales, 30 * Len(DRUGS_DATA))
        total_revenue == sum([i \in 1..Len(recent_sales) |-> recent_sales[i].revenue])
        total_units   == sum([i \in 1..Len(recent_sales) |-> recent_sales[i].units_sold])
        drug_totals   == GroupLoop(recent_sales, 1, Len(recent_sales), "drug_name", None)
        category_data == GroupLoop(recent_sales, 1, Len(recent_sales), "category", None)
    IN  {[body |->
            [total_revenue    |-> The(round2(total_revenue, 1)),
             total_units      |-> total_units,
             avg_daily_demand |-> The(round2(total_units * 100, 30)),
             top_drugs  |-> [k \in 1..Len(top_drugs) |->
                                [name    |-> drug_totals[top_drugs[k]].key,
                                 revenue |-> The(round2(drug_totals[top_drugs[k]].revenue, 1)),
                                 units   |-> drug_totals[top_drugs[k]].units]],
             categories |-> [k \in 1..Len(category_data) |->
                                [name    |-> category_data[k].key,
                                 revenue |-> The(round2(category_data[k].revenue, 1)),
                                 units   |-> category_data[k].units]],
             period |-> "Last 30 days"],
         locals |-> [all_sales |-> all_sales]] :
         top_drugs \in TopDrugs(drug_totals)}

MetricsAnswers ==
    {<<q, SalesMetrics(q[1], q[2])>> :
        q \in ObservedDays \X RandomSources}

\* GET /sales/metrics
get_sales_metrics(c, cred, rnd) ==
    /\ Running
    /\ \E current_user \in Depends(cred, now, users) :
        IF current_user.ok
        THEN \E answer \in Answer(MetricsAnswers, <<Today(now), rnd>>) :
                Return("metrics", c, cred, NoParams, answer.body, answer.locals)
        ELSE Raise("metrics", c, cred, NoParams,
                   current_user.status, current_user.detail, FALSE)
    /\ UNCHANGED <<now, ml_api_url, users, reg, held, relay>>

\* the body of get_sales_trends
SalesTrends(today, drug, rnd) ==
    LET all_sales    == Answer(GeneratedSales, <<today, rnd>>)
        recent_sales == SlicePrefix(all_sales, 60 * Len(DRUGS_DATA))
        daily_data   == GroupLoop(recent_sales, 1, Len(recent_sales), "date", drug)
        sorted_dates == SortedDates(daily_data)
    IN  [body |->
            [dates   |-> sorted_dates,
             units   |-> [k \in 1..Len(sorted_dates) |->
                            daily_data[KeyIndex(daily_data, sorted_dates[k])].units],
             revenue |-> [k \in 1..Len(sorted_dates) |->
                            The(round2(daily_data[KeyIndex(daily_data,
                                                           sorted_dates[k])].revenue,
                                       1))]],
         locals |-> [all_sales |-> all_sales]]

TrendsAnswers ==
    {<<q, SalesTrends(q[1], q[2], q[3])>> :
        q \in ObservedDays \X TrendsDrugs \X RandomSources}

\* GET /sales/trends
get_sales_trends(c, cred, drug, rnd) ==
    /\ Running
    /\ \E current_user \in Depends(cred, now, users) :
        IF current_user.ok
        THEN LET answer == Answer(TrendsAnswers, <<Today(now), drug, rnd>>)
             IN  Return("trends", c, cred, [drug |-> drug], answer.body, answer.locals)
        ELSE Raise("trends", c, cred, [drug |-> drug],
                   current_user.status, current_user.detail, FALSE)
    /\ UNCHANGED <<now, ml_api_url, users, reg, held, relay>>

----------------------------------------------------------------------------
(* Predict route *)

\* "if ML_API_URL:"
MlConfigured == ml_api_url # None /\ ml_api_url # ""

\* the moving average and trend of actual_values, each a fraction num/den
ForecastAvg(actual_values) ==
    IF Len(actual_values) > 7
    THEN [num |-> sum(SliceSuffix(actual_values, 7)), den |-> 7]
    ELSE IF Len(actual_values) > 0
         THEN [num |-> sum(actual_values), den |-> Len(actual_values)]
         ELSE [num |-> 100, den |-> 1]

ForecastTrend(actual_values) ==
    IF Len(actual_values) > 7
    THEN [num |-> actual_values[Len(actual_values)]
                    - actual_values[Len(actual_values) - 7 + 1],
          den |-> 7]
    ELSE [num |-> 0, den |-> 1]

\* max(0, int(avg + trend * i + random.uniform(-avg * 0.1, avg * 0.1))), the
\* uniform fed the word w: uniform(-a, a) = -a + 2a * random(), so the sum is
\* avg + trend * i + avg * (random(w) - 100) / 1000 = n / d. The code adds
\* floats: where n / d is a whole number N >= 1 the float sum is N or falls
\* just below it, as the rounding errors have it, and int() gives N or
\* N - 1. The result is the set of the values the code can give.
Predicted(avg, trend, i, w) ==
    LET n == 1000 * avg.num * trend.den
               + 1000 * trend.num * i * avg.den
               + avg.num * (random(w) - 100) * trend.den
        d == 1000 * avg.den * trend.den
    IN  IF n >= d /\ n % d = 0
        THEN {n \div d - 1, n \div d}
        ELSE {Max(0, int(n, d))}

\* the power of two 2^k with 2^k <= x < 2^(k+1) (x >= 1)
RECURSIVE Binade(_)
Binade(x) == IF x < 2 THEN 1 ELSE 2 * Binade(x \div 2)

\* int(v * 1.15) of an integer v >= 0. The double 1.15 is less than 23/20 by
\* 0.8 * 2^-53, so for v = 20 * u the float product falls below the integer
\* 23 * u of [2^k, 2^(k+1)) where its error 16 * u * 2^-53 exceeds half the
\* spacing 2^(k-52) of the doubles there, and int() cuts it to one less.
\* (The double 0.85 is less than 17/20 by 0.2 * 2^-53: the error 4 * u * 2^-53
\* of v * 0.85 stays below half the spacing at 17 * u, so that int(v * 0.85)
\* is the exact int(v * 85 / 100).)
TimesFloat115(v) ==
    LET u == v \div 20
    IN  IF v > 0 /\ v % 20 = 0 /\ 16 * u > Binade(23 * u)
        THEN 23 * u - 1
        ELSE int(v * 115, 100)

\* the in-process forecasts get_forecast can return, one per list of
\* predicted values
MockForecast(today, drug, days, rnd) ==
    LET all_sales     == Answer(GeneratedSales, <<today, rnd>>)
        recent_sales  == SlicePrefix(all_sales, 60 * Len(DRUGS_DATA))
        daily_data    == GroupLoop(recent_sales, 1, Len(recent_sales), "date", drug)
        sorted_dates  == SortedDates(daily_data)
        actual_values == [k \in 1..Len(sorted_dates) |->
                            daily_data[KeyIndex(daily_data, sorted_dates[k])].units]
        avg           == ForecastAvg(actual_values)
        trend         == ForecastTrend(actual_values)
        last_date     == IF Len(sorted_dates) > 0
                         THEN strptime(sorted_dates[Len(sorted_dates)])
                         ELSE today
        \* the words the generator took come first
        w0            == 3 * HISTORY_DAYS * Len(DRUGS_DATA)
        pred(i)       == Predicted(avg, trend, i, RandomWord(rnd, w0 + i - 1))
        predictions   == {p \in [1..days -> UNION {pred(i) : i \in 1..days}] :
                            \A i \in 1..days : p[i] \in pred(i)}
    IN  {[body |->
            [historical_dates  |-> SliceSuffix(sorted_dates, 30),
             historical_values |-> SliceSuffix(actual_values, 30),
             forecast_dates    |-> [i \in 1..days |-> strftime(last_date + i)],
             predicted         |-> [i \in 1..days |-> predicted_values[i]],
             drug              |-> IF Truthy(drug) THEN drug ELSE "All Drugs",
             status            |-> "mock",
             model             |-> "SARIMA (Mock)",
             confidence_interval |->
                [lower |-> [i \in 1..days |-> Max(0, int(predicted_values[i] * 85, 100))],
                 upper |-> [i \in 1..days |-> TimesFloat115(predicted_values[i])]]],
         locals |->
            [all_sales |-> all_sales, actual_values |-> actual_values,
             avg |-> avg, trend |-> trend]] :
         predicted_values \in predictions}

ForecastAnswers ==
    {<<q, MockForecast(q[1], q[2], q[3], q[4])>> :
        q \in ObservedDays \X PredictDrugs \X PredictDays \X RandomSources}

\* GET /predict, up to the in-process answer or to the call of requests.get,
\* which holds the thread until the external service answers
get_forecast(c, cred, drug, days, rnd) ==
    /\ Running
    /\ \E current_user \in Depends(cred, now, users) :
        IF ~current_user.ok
        THEN /\ Raise("predict", c, cred, [drug |-> drug, days |-> days],
                      current_user.status, current_user.detail, FALSE)
             /\ UNCHANGED relay
        ELSE IF MlConfigured
        THEN /\ relay' = [pc |-> "waiting", client |-> c, cred |-> cred,
                          request |-> [drug |-> drug, days |-> days]]
             /\ UNCHANGED last
        ELSE /\ \E forecast \in
                     Answer(ForecastAnswers, <<Today(now), drug, days, rnd>>) :
                    Return("predict", c, cred, [drug |-> drug, days |-> days],
                           forecast.body, forecast.locals)
             /\ UNCHANGED relay
    /\ UNCHANGED <<now, ml_api_url, users, reg, held>>

\* the external service answers with a JSON body: "return response.json()"
UpstreamAnswers(json) ==
    /\ relay.pc = "waiting"
    /\ Return("predict", relay.client, relay.cred, relay.request, json, NoLocals)
    /\ relay' = NoRelay
    /\ UNCHANGED <<now, ml_api_url, users, reg, held>>

\* requests.get or response.json() raises (connection refused or reset, a
\* body that is no JSON): "except Exception"
UpstreamFails ==
    /\ relay.pc = "waiting"
    /\ Return("predict", relay.client, relay.cred, relay.request,
              [error |-> "Failed to fetch from external ML API", status |-> "error"],
              NoLocals)
    /\ relay' = NoRelay
    /\ UNCHANGED <<now, ml_api_url, users, reg, held>>

----------------------------------------------------------------------------
(* Insights, drugs, root and health routes *)

\* the descriptions, which no handler reads, are left out
MOCK_INSIGHTS == <<
    [id |-> "1", title |-> "Increase Paracetamol Stock", category |-> "Inventory",
     priority |-> "high", drug_name |-> "Paracetamol"],
    [id |-> "2", title |-> "Antibiotic Sales Declining", category |-> "Sales",
     priority |-> "medium", drug_name |-> "Amoxicillin"],
    [id |-> "3", title |-> "Cardiovascular Category Growth", category |-> "Growth",
     priority |-> "high", drug_name |-> None],
    [id |-> "4", title |-> "Optimize Omeprazole Pricing", category |-> "Pricing",
     priority |-> "medium", drug_name |-> "Omeprazole"],
    [id |-> "5", title |-> "Weekend Staffing Adjustment", category |-> "Operations",
     priority |-> "low", drug_name |-> None],
    [id |-> "6", title |-> "Gabapentin Stockout Risk", category |-> "Inventory",
     priority |-> "critical", drug_name |-> "Gabapentin"],
    [id |-> "7", title |-> "Bundle Promotion Opportunity", category |-> "Marketing",
     priority |-> "medium", drug_name |-> None],
    [id |-> "8", title |-> "Diabetes Category Expansion", category |-> "Growth",
     priority |-> "low", drug_name |-> "Metformin"] >>

\* priority_order.get(priority, 4)
priority_order(priority) ==
    CASE priority = "critical" -> 0
      [] priority = "high"     -> 1
      [] priority = "medium"   -> 2
      [] priority = "low"      -> 3
      [] OTHER                 -> 4

\* the body of get_insights; list.sort is stable
Insights(category, priority) ==
    LET by_category == IF Truthy(category)
                       THEN SelectSeq(MOCK_INSIGHTS,
                                LAMBDA i : lower(i.category) = lower(category))
                       ELSE MOCK_INSIGHTS
        by_priority == IF Truthy(priority)
                       THEN SelectSeq(by_category,
                                LAMBDA i : lower(i.priority) = lower(priority))
                       ELSE by_category
        order == SortSeq([k \in 1..Len(by_priority) |-> k],
                    LAMBDA a, b :
                        \/ priority_order(by_priority[a].priority)
                             < priority_order(by_priority[b].priority)
                        \/ priority_order(by_priority[a].priority)
                             = priority_order(by_priority[b].priority) /\ a < b)
        insights == [k \in 1..Len(order) |-> by_priority[order[k]]]
    IN  [insights |-> insights, total |-> Len(insights)]

\* GET /insights
get_insights(c, cred, category, priority) ==
    /\ Running
    /\ \E current_user \in Depends(cred, now, users) :
        IF current_user.ok
        THEN Return("insights", c, cred, [category |-> category, priority |-> priority],
                    Insights(category, priority), NoLocals)
        ELSE Raise("insights", c, cred, [category |-> category, priority |-> priority],
                   current_user.status, current_user.detail, FALSE)
    /\ UNCHANGED <<now, ml_api_url, users, reg, held, relay>>

\* GET /drugs
get_drugs(c, cred) ==
    /\ Running
    /\ \E current_user \in Depends(cred, now, users) :
        IF current_user.ok
        THEN Return("drugs", c, cred, NoParams, [drugs |-> DRUGS_DATA], NoLocals)
        ELSE Raise("drugs", c, cred, NoParams,
                   current_user.status, current_user.detail, FALSE)
    /\ UNCHANGED <<now, ml_api_url, users, reg, held, relay>>

\* GET /
root(c, cred) ==
    /\ Running
    /\ Return("root", c, cred, NoParams,
              [message |-> "Pharma Insights API", version |-> "1.0.0"], NoLocals)
    /\ UNCHANGED <<now, ml_api_url, users, reg, held, relay>>

\* GET /health
health_check(c, cred) ==
    /\ Running
    /\ Return("health", c, cred, NoParams,
              [status |-> "healthy", ml_api_configured |-> ml_api_url # None], NoLocals)
    /\ UNCHANGED <<now, ml_api_url, users, reg, held, relay>>

\* time passes: the clock is next looked at at a later instant
Tick ==
    /\ \E t \in ClockValues : t > now /\ now' = t
    /\ UNCHANGED <<ml_api_url, users, reg, held, relay, last>>

----------------------------------------------------------------------------
(* Register and login, the coroutines of the clients interleaved *)

Init ==
    /\ now = 0
    /\ ml_api_url = None
    /\ users = <<>>
    /\ reg = [c \in Clients |-> Idle]
    /\ held = [c \in Clients |-> NoToken]
    /\ relay = NoRelay
    /\ last = NoRequest

Next ==
    \/ \E c \in Clients, user_data \in UserCreate : RegisterCheck(c, user_data)
    \/ \E c \in Clients : RegisterInsert(c)
    \/ \E c \in Clients, user_data \in UserLogin : Login(c, user_data)

Spec == Init /\ [][Next]_vars

----------------------------------------------------------------------------
(* Register requests one at a time: a register request is taken up only *)
(* when no register coroutine is under way *)

SeqNext ==
    \/ \E c \in Clients, user_data \in UserCreate :
          (\A d \in Clients : reg[d].pc = "idle") /\ RegisterCheck(c, user_data)
    \/ \E c \in Clients : RegisterInsert(c)
    \/ \E c \in Clients, user_data \in UserLogin : Login(c, user_data)

SeqSpec == Init /\ [][SeqNext]_vars

----------------------------------------------------------------------------
(* One client, its tokens and the clock *)

ClockNext ==
    \/ \E user_data \in UserCreate : RegisterCheck("c1", user_data)
    \/ RegisterInsert("c1")
    \/ \E user_data \in UserLogin : Login("c1", user_data)
    \/ \E cred \in Credentials("c1") : get_me("c1", cred)
    \/ Tick

ClockSpec == Init /\ [][ClockNext]_vars

----------------------------------------------------------------------------
(* Every route, one client, the in-process forecast *)

ApiUser == [email |-> "alice@x.com", name |-> "User", password |-> "pw123"]

ApiNext ==
    \/ RegisterCheck("c1", ApiUser)
    \/ RegisterInsert("c1")
    \/ Login("c1", [email |-> ApiUser.email, password |-> ApiUser.password])
    \/ \E cred \in Credentials("c1") : get_me("c1", cred)
    \/ \E cred \in Credentials("c1"), days \in SalesDays, drug \in SalesDrugs,
          rnd \in RandomSources : get_sales("c1", cred, days, drug, rnd)
    \/ \E cred \in Credentials("c1"), rnd \in RandomSources :
          get_sales_metrics("c1", cred, rnd)
    \/ \E cred \in Credentials("c1"), drug \in TrendsDrugs, rnd \in RandomSources :
          get_sales_trends("c1", cred, drug, rnd)
    \/ \E cred \in Credentials("c1"), drug \in PredictDrugs, days \in PredictDays,
          rnd \in RandomSources : get_forecast("c1", cred, drug, days, rnd)
    \/ \E cred \in Credentials("c1"), category \in InsightCategories,
          priority \in InsightPriorities : get_insights("c1", cred, category, priority)
    \/ \E cred \in Credentials("c1") : get_drugs("c1", cred)
    \/ \E cred \in Credentials("c1") : root("c1", cred)
    \/ \E cred \in Credentials("c1") : health_check("c1", cred)

ApiSpec == Init /\ [][ApiNext]_vars

----------------------------------------------------------------------------
(* The forecast relayed to an external service: ML_API_URL is set *)

\* the JSON bodies the external service answers with
UpstreamBodies ==
    {[predicted |-> <<120, 130>>, status |-> "ok"], [status |-> "error"]}

RelayInit ==
    /\ now = 0
    /\ ml_api_url = "http://ml.example/forecast"
    /\ users = <<>>
    /\ reg = [c \in Clients |-> Idle]
    /\ held = [c \in Clients |-> NoToken]
    /\ relay = NoRelay
    /\ last = NoRequest

\* the requests of the client and the answers of the external service
RelayNext ==
    \/ RegisterCheck("c1", ApiUser)
    \/ RegisterInsert("c1")
    \/ Login("c1", [email |-> ApiUser.email, password |-> ApiUser.password])
    \/ \E cred \in Credentials("c1"), drug \in PredictDrugs, days \in PredictDays,
          rnd \in RandomSources : get_forecast("c1", cred, drug, days, rnd)
    \/ \E json \in UpstreamBodies : UpstreamAnswers(json)
    \/ UpstreamFails
    \/ \E cred \in Credentials("c1") : health_check("c1", cred)

RelaySpec == RelayInit /\ [][RelayNext]_vars

\* the event loop resumes a coroutine whose awaited store call has returned.
\* Nothing makes the clients send requests, and nothing makes the external
\* service answer or the connection fail: requests.get is called without a
\* timeout.
FairRelaySpec == RelaySpec /\ WF_vars(RegisterInsert("c1"))

----------------------------------------------------------------------------
(* Properties: register and login *)

\* the store holds a record made by a register request with this email and
\* this password
Registered(email, password) ==
    \E i \in 1..Len(users) :
        /\ users[i].email = email
        /\ users[i].password_hash = get_password_hash(password)

\* C1: login(email, password) succeeds and returns a token for the email iff
\* an earlier register request with that email and that password created a
\* user record; in every other case it fails with 401.
LoginIffRegistered ==
    last.endpoint = "login" =>
        IF Registered(last.request.email, last.request.password)
        THEN last.status = 200 /\ last.body.access_token.sub = last.request.email
        ELSE last.status = 401

\* C2: the store holds at most one record per email
AtMostOneRecordPerEmail ==
    \A email \in Emails : Cardinality(Matching(users, email)) <= 1

\* C2: a register request for an email that has a record fails with 400,
\* issues no token and leaves the store as it is
DuplicateRegisterRefused ==
    \A c \in Clients, user_data \in UserCreate :
        (RegisterCheck(c, user_data) /\ Matching(users, user_data.email) # {}) =>
            /\ last'.endpoint = "register" /\ last'.status = 400
            /\ last'.body = [detail |-> "Email already registered"]
            /\ users' = users
            /\ held' = held
            /\ reg'[c].pc = "idle"

\* C2: when register requests run one at a time, a register for an email
\* that already has a user record fails with 400, issues no token and leaves
\* the user store unchanged, and the store always holds at most one record
\* per email.
SequentialRegisterKeepsEmailsUnique ==
    /\ []AtMostOneRecordPerEmail
    /\ [][DuplicateRegisterRefused]_vars

\* C2: a register request was refused with 400 while the store held the
\* record of its email, made with another password
DuplicateRegisterSeen ==
    /\ last.endpoint = "register" /\ last.status = 400
    /\ \E i \in 1..Len(users) :
          /\ users[i].email = last.request.email
          /\ users[i].password_hash # get_password_hash(last.request.password)

\* C3: the check of a register request looks at the records only, not at the
\* register requests under way
CheckPassesWithoutRecord ==
    \A c \in Clients, user_data \in UserCreate :
        (RegisterCheck(c, user_data) /\ Matching(users, user_data.email) = {}) =>
            /\ reg'[c] = [pc |-> "insert", user_data |-> user_data]
            /\ users' = users

\* C3: a register request that passed the check inserts its record and
\* returns a token, whatever the store holds by then
InsertAfterCheckAlwaysInserts ==
    \A c \in Clients :
        RegisterInsert(c) =>
            /\ Len(users') = Len(users) + 1
            /\ SubSeq(users', 1, Len(users)) = users
            /\ users'[Len(users')].email = reg[c].user_data.email
            /\ last'.endpoint = "register" /\ last'.status = 200
            /\ last'.body.access_token.sub = reg[c].user_data.email
            /\ held'[c].token = last'.body.access_token

\* C3: the existence check and the insert of a register request are two
\* steps; a request that found no record at its check inserts and returns a
\* token even if another request for the same email inserted in between, so
\* two records for one email can come to exist.
RegisterCheckThenInsertNotAtomic ==
    /\ [][CheckPassesWithoutRecord]_vars
    /\ [][InsertAfterCheckAlwaysInserts]_vars

\* C3: the store holds two records for one email, and each of the two
\* clients holds the token its register request returned for that email
TwoRecordsForOneEmail ==
    \E i, j \in 1..Len(users) :
        /\ i < j
        /\ users[i].email = users[j].email
        /\ users[i].password_hash # users[j].password_hash
        /\ \A c \in Clients :
              held[c].token.kind = "jwt" /\ held[c].token.sub = users[i].email
        /\ last.endpoint = "register" /\ last.status = 200

----------------------------------------------------------------------------
(* Properties: tokens and protected routes *)

\* the routes declared with Depends(get_current_user)
Protected == {"me", "sales", "metrics", "trends", "predict", "insights", "drugs"}

\* the credentials are a token signed with SECRET_KEY, not yet expired at
\* clock value t, whose subject has a record in db
Verifies(cred, t, db) ==
    /\ cred.kind = "jwt"
    /\ cred.key = SECRET_KEY
    /\ t < cred.exp * TicksPerSecond
    /\ cred.sub # None
    /\ Matching(db, cred.sub) # {}

\* C4: the handler of a protected route runs only for a request whose bearer
\* token verifies and whose subject has a user record; every other request
\* to a protected route (no Authorization header, invalid or expired token,
\* no user record) is rejected with 401 and the handler does not run;
\* register, login, root and health run without a token.
ProtectedRoutesReject401 ==
    /\ last.endpoint \in Protected =>
          IF Verifies(last.cred, last.at, users)
          THEN last.handler_ran /\ last.status = 200
          ELSE ~last.handler_ran /\ last.status = 401
    /\ last.endpoint \in {"register", "login", "root", "health"} => last.handler_ran

\* the token a register or login request returned carries the email of the
\* request as sub
IssuedForRequestEmail ==
    (last.endpoint \in {"register", "login"} /\ last.status = 200) =>
        /\ last.body.access_token.kind = "jwt"
        /\ last.body.access_token.sub = last.request.email

\* the last request was GET /auth/me with a token that register or login
\* issued (signed with SECRET_KEY, for a registered email)
MeWithIssuedToken ==
    /\ last.endpoint = "me"
    /\ last.cred.kind = "jwt"
    /\ last.cred.key = SECRET_KEY
    /\ last.cred.sub \in Emails

\* C5 (as the code has it): a token issued for email e at time t carries
\* sub = e and exp = t + 1440 minutes cut down to a whole second; verified at
\* time now it yields e's user for every now before that exp and fails with
\* 401 "Invalid token" for every now from that exp on.
TokenValidUntilWholeSecondExp ==
    /\ IssuedForRequestEmail
    /\ (last.endpoint \in {"register", "login"} /\ last.status = 200) =>
          last.body.access_token.exp
              = (last.at + MinutesTicks(1440)) \div TicksPerSecond
    /\ MeWithIssuedToken =>
          IF last.at < last.cred.exp * TicksPerSecond
          THEN last.status = 200 /\ last.body.email = last.cred.sub
          ELSE last.status = 401 /\ last.body = [detail |-> "Invalid token"]

\* C5: a token issued off a whole second was presented less than 1440
\* minutes after it was issued and was refused
RefusedBeforeFullLifetime ==
    /\ MeWithIssuedToken
    /\ last.cred = held["c1"].token
    /\ held["c1"].at % TicksPerSecond # 0
    /\ last.at < held["c1"].at + MinutesTicks(1440)
    /\ last.status = 401

\* C5: a token issued for email e at time t carries sub = e and
\* exp = t + 1440 minutes; verifying it at time now returns sub = e for every
\* now with t <= now < exp and fails as an invalid token for every now >= exp.
TokenValidExactly1440Minutes ==
    /\ IssuedForRequestEmail
    /\ (last.endpoint \in {"register", "login"} /\ last.status = 200) =>
          last.body.access_token.exp * TicksPerSecond
              = last.at + MinutesTicks(1440)
    /\ (MeWithIssuedToken /\ last.cred = held["c1"].token) =>
          IF last.at < held["c1"].at + MinutesTicks(1440)
          THEN last.status = 200 /\ last.body.email = last.cred.sub
          ELSE last.status = 401

----------------------------------------------------------------------------
(* Properties: sales data *)

\* the last request ran a handler that called generate_mock_sales_data
GeneratorRan ==
    /\ last.endpoint \in {"sales", "metrics", "trends", "predict"}
    /\ last.status = 200

\* C6: every call of generate_mock_sales_data returns exactly 1800 rows in
\* which each (day, drug) pair with day in today .. today-179 and drug in the
\* 10-entry catalog occurs exactly once, every units_sold is >= 0, and row k
\* is the row of day today - (k div 10) and of catalog drug number k mod 10.
GeneratorRowsComplete ==
    GeneratorRan =>
        LET all_sales == last.locals.all_sales
            today     == Today(last.at)
            pairs     == {<<all_sales[k].date, all_sales[k].drug_name>> :
                            k \in 1..Len(all_sales)}
        IN  /\ Len(all_sales) = 1800
            /\ Len(DRUGS_DATA) = 10
            /\ Cardinality(pairs) = 1800
            /\ pairs = {<<strftime(today - day), DRUGS_DATA[j].name>> :
                            day \in 0..179, j \in 1..10}
            /\ \A k \in 0..1799 :
                  /\ all_sales[k + 1].units_sold >= 0
                  /\ all_sales[k + 1].date = strftime(today - (k \div 10))
                  /\ all_sales[k + 1].drug_name = DRUGS_DATA[(k % 10) + 1].name
                  /\ all_sales[k + 1].category = DRUGS_DATA[(k % 10) + 1].category

\* C6: a handler ran the generator and the draws made the rows differ: two
\* drugs of one day, and one drug on two days, sold different numbers of units
GeneratorRanWithVaryingDraws ==
    /\ GeneratorRan
    /\ last.locals.all_sales[1].units_sold # last.locals.all_sales[2].units_sold
    /\ last.locals.all_sales[1].units_sold # last.locals.all_sales[11].units_sold
    /\ last.locals.all_sales[1800].date = strftime(Today(last.at) - 179)

\* C7: GET /sales with days = n returns the rows of the n most recent days
\* (the first n x 10 generated rows), with a drug filter those of them whose
\* drug_name equals the filter case-insensitively, and total is the number
\* of rows returned; for every integer n, n = 0, n > 180 and negative n
\* included.
SalesReturnsNMostRecentDays ==
    (last.endpoint = "sales" /\ last.status = 200) =>
        LET n        == last.request.days
            drug     == last.request.drug
            today    == Today(last.at)
            recent   == SelectSeq(last.locals.all_sales,
                            LAMBDA row : strptime(row.date) > today - n)
            expected == IF Truthy(drug)
                        THEN SelectSeq(recent,
                                LAMBDA row : lower(row.drug_name) = lower(drug))
                        ELSE recent
        IN  /\ last.body.sales = expected
            /\ last.body.total = Len(last.body.sales)

\* C8: the metrics response has total_units equal to the sum of the units of
\* the entries of categories and total_revenue equal to the sum of their
\* revenues (in whole cents), and every category of the 30-day window appears
\* exactly once in categories.
MetricsTotalsAreCategorySums ==
    (last.endpoint = "metrics" /\ last.status = 200) =>
        LET categories == last.body.categories
            window     == SubSeq(last.locals.all_sales, 1, 300)
            in_window  == {window[k].category : k \in 1..Len(window)}
        IN  /\ last.body.total_units
                 = sum([k \in 1..Len(categories) |-> categories[k].units])
            /\ last.body.total_revenue
                 = sum([k \in 1..Len(categories) |-> categories[k].revenue])
            /\ last.body.total_units
                 = sum([k \in 1..Len(window) |-> window[k].units_sold])
            /\ {categories[k].name : k \in 1..Len(categories)} = in_window
            /\ \A name \in in_window :
                  Cardinality({k \in 1..Len(categories) : categories[k].name = name}) = 1

\* C8: a metrics response with several categories, one of them the sum of
\* several drugs and larger than the best-selling drug
MetricsWithSeveralCategories ==
    /\ last.endpoint = "metrics" /\ last.status = 200
    /\ Len(last.body.categories) = 6
    /\ last.body.categories[5].name = "Cardiovascular"
    /\ last.body.categories[5].revenue > last.body.top_drugs[1].revenue
    /\ last.body.total_revenue > last.body.categories[5].revenue

\* C9: with v the per-date unit sums by ascending date: if v has at least 8
\* entries then avg is the mean of the last 7 entries and trend is (last
\* entry - the entry 7 positions before the last) / 7; otherwise trend = 0
\* and avg is the mean of all entries, or 100 when v is empty.
ForecastTrendOverSevenSteps ==
    (last.endpoint = "predict" /\ last.status = 200) =>
        LET v     == last.locals.actual_values
            n     == Len(v)
            avg   == last.locals.avg
            trend == last.locals.trend
        IN  IF n >= 8
            THEN /\ avg.num * 7 = avg.den * sum(SubSeq(v, n - 6, n))
                 /\ trend.num * 7 = trend.den * (v[n] - v[n - 7])
            ELSE /\ trend.num = 0
                 /\ IF n > 0 THEN avg.num * n = avg.den * sum(v)
                    ELSE avg.num = 100 * avg.den

\* C10: with an external forecasting URL configured, every authenticated
\* /predict request eventually completes, with the upstream JSON or with the
\* error payload; it never hangs waiting for the upstream service.
RelayAlwaysCompletes ==
    (relay.pc = "waiting") ~> (relay.pc = "idle")

====
